---- MODULE Spec2Model ----
(***************************************************************************)
(* A model of torchdynamo's symbolic value model                           *)
(* (torchdynamo/variable_tracker.py) and of the guard-validated            *)
(* compilation cache that testing.py and torchbench.py drive.              *)
(*                                                                         *)
(* Values live in a heap (a sequence of objects, an object's id being      *)
(* its position); an object is a record holding its class and its          *)
(* __dict__.  A value that refers to another value holds the id.           *)
(***************************************************************************)
EXTENDS Integers, Sequences, FiniteSets, TLC

VARIABLES
    heap,       \* the values that exist before an operation is called
    fresh,      \* the values the last operation constructed
    result,     \* the last operation: its name, receiver, arguments, return value
    options,    \* the record the last call of propagate returned
    emitted,    \* per value: the items it emitted so far as an iterator
    cache,      \* per code unit: the compiled artifacts, in insertion order
    fallback,   \* the code units marked fallback-only
    last,       \* the last call through the frame gate
    counter     \* the CompileCounter handed to the frame gate as its backend

valueVars == <<heap, fresh, result, options, emitted>>
cacheVars == <<cache, fallback, last, counter>>
vars == <<heap, fresh, result, options, emitted, cache, fallback, last, counter>>

----------------------------------------------------------------------------
(* Bounds *)

MaxLen == 2         \* longest operand list handed to propagate and call_const

----------------------------------------------------------------------------
(* class TracingSupported(enum.Enum) *)

UNKNOWN == 0
YES == 1
NO == 2

TracingSupported == {UNKNOWN, YES, NO}

\* combine with the order of the states reversed: the smaller value wins
combine_min(a, b) == IF a <= b THEN a ELSE b

combine(a, b) == IF a >= b THEN a ELSE b

RECURSIVE reduce_combine(_, _)
reduce_combine(acc, s) ==
    IF s = <<>> THEN acc ELSE reduce_combine(combine(acc, Head(s)), Tail(s))

\* functools.reduce without an initial value: the sequence is not empty
combine_states(s) == reduce_combine(Head(s), Tail(s))

RECURSIVE reduce_union(_, _)
reduce_union(acc, s) ==
    IF s = <<>> THEN acc ELSE reduce_union(acc \cup Head(s), Tail(s))

combine_guards(s) == reduce_union(Head(s), Tail(s))

----------------------------------------------------------------------------
(* Python values *)

None == "None"

\* bool(name) of an Optional[str]
Truthy(name) == name # None /\ name # ""

\* A literal: an int (n >= 0), a bool (an int: n is 0 or 1), None, a tuple
\* or list of literals, a slice (elems = <<start, stop>>), a dtype or a
\* device (s its name).
Lit(kind, n, s, elems) == [kind |-> kind, n |-> n, s |-> s, elems |-> elems]
NoneLit == Lit("None", 0, "", <<>>)
IntLit(n) == Lit("int", n, "", <<>>)
BoolLit(b) == Lit("bool", IF b THEN 1 ELSE 0, "", <<>>)
TupleLit(es) == Lit("tuple", 0, "", es)
ListLit(es) == Lit("list", 0, "", es)
SliceLit(lo, hi) == Lit("slice", 0, "", <<lo, hi>>)
Raised(exc) == Lit(exc, 0, "", <<>>)

Exceptions ==
    {"NotImplementedError", "TypeError", "IndexError", "AssertionError",
     "AttributeError", "StopIteration"}

IsRaised(lit) == lit.kind \in Exceptions

\* seq[start:stop] for a slice whose bounds are None or ints >= 0
PySlice(seq, sl) ==
    LET lo == IF sl.elems[1].kind = "None" THEN 0 ELSE sl.elems[1].n
        hi == IF sl.elems[2].kind = "None" \/ sl.elems[2].n > Len(seq)
              THEN Len(seq) ELSE sl.elems[2].n
    IN  SubSeq(seq, lo + 1, hi)

SliceBoundsOk(sl) ==
    \A i \in 1..2 : sl.elems[i].kind \in {"None", "int", "bool"}

\* value[index] of a literal
Subscript(value, index) ==
    IF value.kind \notin {"tuple", "list"} THEN Raised("TypeError")
    ELSE IF index.kind \in {"int", "bool"}
         THEN IF index.n < Len(value.elems)
              THEN value.elems[index.n + 1] ELSE Raised("IndexError")
    ELSE IF index.kind = "slice" /\ SliceBoundsOk(index)
         THEN Lit(value.kind, 0, "", PySlice(value.elems, index))
    ELSE Raised("TypeError")

\* a dict of keyword arguments is a function from the keys
NoKwargs == [k \in {} |-> 0]

Get(kw, k, default) == IF k \in DOMAIN kw THEN kw[k] ELSE default

Update(d, kw) ==
    [k \in (DOMAIN d) \cup (DOMAIN kw) |-> IF k \in DOMAIN kw THEN kw[k] ELSE d[k]]

----------------------------------------------------------------------------
(* class VariableTracker and its subclasses *)

BaseListClasses == {"ListVariable", "TupleVariable", "SliceVariable"}

VariableTracker_init(kw) ==
    [state |-> Get(kw, "state", UNKNOWN),
     guards |-> IF "guards" \in DOMAIN kw /\ kw.guards # {} THEN kw.guards ELSE {},
     initial_name |-> Get(kw, "initial_name", None),
     global_name |-> Get(kw, "global_name", None)]

\* cls(**args): the __init__ of each class
Construct(cls, args) ==
    LET base == [cls |-> cls] @@ VariableTracker_init(args) IN
    CASE cls \in {"ConstantVariable", "FunctionConstantWrapper",
                  "AllowedFunctionOrModuleVariable"} ->
            base @@ [value |-> args.value]
      [] cls = "TensorVariable" ->
            base @@ [proxy |-> args.proxy,
                     dtype |-> Get(args, "dtype", NoneLit),
                     device |-> Get(args, "device", NoneLit),
                     ndim |-> Get(args, "ndim", NoneLit),
                     size |-> Get(args, "size", NoneLit),
                     stride |-> Get(args, "stride", NoneLit)]
      [] cls = "ListIteratorVariable" ->
            base @@ [items |-> args.items, index |-> Get(args, "index", 0)]
      [] cls \in BaseListClasses ->
            base @@ [items |-> args.items]
      [] cls = "GetAttrVariable" ->
            base @@ [obj |-> args.obj, name |-> args.name]
      [] cls = "ConstDictVariable" ->
            base @@ [items |-> args.items]
      [] OTHER -> base

\* self.__dict__
Dict(self) == [k \in (DOMAIN self) \ {"cls"} |-> self[k]]

\* What a call made of heap H: the heap after it, the values it constructed
\* (their ids follow the heap's), the ids it returned, the exception it raised.
Outcome(H, new, ret, exc) == [heap |-> H, new |-> new, ret |-> ret, exc |-> exc]
Raise(H, exc) == Outcome(H, <<>>, <<>>, exc)

\* every value there is after the call
Merge(out) == out.heap \o out.new

\* the outcome of a call on a heap of n values that left the values F
Split(n, F, ret) == Outcome(SubSeq(F, 1, n), SubSeq(F, n + 1, Len(F)), ret, "")

\* clone updating self.__dict__ itself instead of a copy of it
clone_in_place(self, kwargs, H) ==
    Outcome([H EXCEPT ![self] = Construct(H[self].cls, Update(Dict(H[self]), kwargs))],
            <<>>, <<self>>, "")

\* VariableTracker.clone
clone(self, kwargs, H) ==
    Outcome(H, <<Construct(H[self].cls, Update(Dict(H[self]), kwargs))>>,
            <<Len(H) + 1>>, "")

add_guard(self, guard, H) == clone(self, [guards |-> H[self].guards \cup {guard}], H)

add_guards(self, guards, H) == clone(self, [guards |-> H[self].guards \cup guards], H)

with_initial_name(self, name, H) == clone(self, [initial_name |-> name], H)

\* propagate with a default for the empty list that is not the neutral one
propagate_empty_yes(vs) ==
    IF Len(vs) = 0 THEN [state |-> YES, guards |-> {}]
    ELSE [state |-> combine_states([i \in 1..Len(vs) |-> vs[i].state]),
          guards |-> combine_guards([i \in 1..Len(vs) |-> vs[i].guards])]

\* propagate keeping the guards of the first value only
propagate_first_guards(vs) ==
    IF Len(vs) = 0 THEN NoKwargs
    ELSE [state |-> combine_states([i \in 1..Len(vs) |-> vs[i].state]),
          guards |-> vs[1].guards]

\* VariableTracker.propagate: vs is a sequence of values
propagate(vs) ==
    IF Len(vs) = 0 THEN NoKwargs
    ELSE [state |-> combine_states([i \in 1..Len(vs) |-> vs[i].state]),
          guards |-> combine_guards([i \in 1..Len(vs) |-> vs[i].guards])]

\* x.as_python_constant() of the value at id in heap H; a Raised literal when
\* it raises
RECURSIVE as_python_constant(_, _)
as_python_constant(id, H) ==
    LET self == H[id] IN
    IF self.cls \in {"ConstantVariable", "AllowedFunctionOrModuleVariable"}
    THEN self.value
    ELSE IF self.cls \in BaseListClasses
    THEN LET cs == [i \in 1..Len(self.items) |-> as_python_constant(self.items[i], H)] IN
         IF \E i \in 1..Len(cs) : IsRaised(cs[i]) THEN Raised("NotImplementedError")
         ELSE CASE self.cls = "ListVariable" -> ListLit(cs)
                [] self.cls = "TupleVariable" -> TupleLit(cs)
                [] self.cls = "SliceVariable" ->
                     \* slice(stop), slice(start, stop); no step is tried
                     CASE Len(cs) = 1 -> SliceLit(NoneLit, cs[1])
                       [] Len(cs) = 2 -> SliceLit(cs[1], cs[2])
                       [] Len(cs) = 0 \/ Len(cs) > 3 -> Raised("TypeError")
    ELSE Raised("NotImplementedError")

ConstantVariable_getitem_const(self, arg, H) ==
    LET index == as_python_constant(arg, H)
        item == IF IsRaised(index) THEN index ELSE Subscript(H[self].value, index)
    IN  IF IsRaised(item) THEN Raise(H, item.kind)
        ELSE Outcome(H, <<Construct("ConstantVariable",
                                    [value |-> item] @@ propagate(<<H[self], H[arg]>>))>>,
                     <<Len(H) + 1>>, "")

BaseListVariable_getitem_const(self, arg, H) ==
    LET index == as_python_constant(arg, H) IN
    IF IsRaised(index) THEN Raise(H, index.kind)
    ELSE IF index.kind = "slice"
    THEN IF ~SliceBoundsOk(index) THEN Raise(H, "TypeError")
         ELSE LET a == clone(self, [items |-> PySlice(H[self].items, index)], H)
                  b == add_guards(a.ret[1], H[arg].guards, Merge(a))
              IN  Split(Len(H), Merge(b), b.ret)
    ELSE IF index.kind \notin {"int", "bool"} THEN Raise(H, "AssertionError")
    ELSE IF index.n >= Len(H[self].items) THEN Raise(H, "IndexError")
    ELSE LET a == add_guards(H[self].items[index.n + 1], H[self].guards, H)
             b == add_guards(a.ret[1], H[arg].guards, Merge(a))
         IN  Split(Len(H), Merge(b), b.ret)

\* self.getitem_const(arg), by the class of self
getitem_const(self, arg, H) ==
    IF H[self].cls = "ConstantVariable" THEN ConstantVariable_getitem_const(self, arg, H)
    ELSE IF H[self].cls \in BaseListClasses THEN BaseListVariable_getitem_const(self, arg, H)
    ELSE Raise(H, "AttributeError")

\* TensorVariable.specialize: the properties recorded for a tensor
specialize(value, dynamic_shapes) ==
    LET props == [dtype |-> value.dtype, device |-> value.device, ndim |-> value.ndim] IN
    IF ~dynamic_shapes
    THEN props @@ [size |-> value.size, stride |-> value.stride]
    ELSE props

\* TensorVariable.const_attr; it returns None when the attribute is not known
const_attr(self, name, H) ==
    LET t == H[self]
        opts == propagate(<<t>>)
        branch ==
            IF name \in {"ndim", "ndimension", "dim"} /\ t.ndim # NoneLit THEN "ndim"
            ELSE IF name = "dtype" /\ t.dtype # NoneLit THEN "dtype"
            ELSE IF name = "device" /\ t.device # NoneLit THEN "device"
            ELSE IF name = "is_cuda" /\ t.device # NoneLit THEN "is_cuda"
            ELSE IF name \in {"size", "shape"} /\ t.size # NoneLit THEN "size"
            ELSE IF name = "stride" /\ t.stride # NoneLit THEN "stride"
            ELSE "None"
        wrapped ==
            CASE branch = "ndim" -> name # "ndim"
              [] branch = "size" -> name = "size"
              [] branch = "stride" -> TRUE
              [] OTHER -> FALSE
        cls == IF branch \in {"dtype", "device"} THEN "AllowedFunctionOrModuleVariable"
               ELSE "ConstantVariable"
        value ==
            CASE branch = "ndim" -> t.ndim
              [] branch = "dtype" -> t.dtype
              [] branch = "device" -> t.device
              [] branch = "is_cuda" -> BoolLit(t.device.s = "cuda")
              [] branch = "size" -> t.size
              [] branch = "stride" -> t.stride
    IN  IF branch = "None" THEN Outcome(H, <<>>, <<>>, "")
        ELSE IF wrapped
        THEN Outcome(H, <<Construct(cls, [value |-> value] @@ opts),
                          Construct("FunctionConstantWrapper",
                                    [value |-> Len(H) + 1] @@ opts)>>,
                     <<Len(H) + 2>>, "")
        ELSE Outcome(H, <<Construct(cls, [value |-> value] @@ opts)>>, <<Len(H) + 1>>, "")

\* tuple(self.value.getitem_const(a) for a in args): acc is the outcome of
\* the calls made so far
RECURSIVE getitem_const_each(_, _, _)
getitem_const_each(value, args, acc) ==
    IF args = <<>> THEN acc
    ELSE LET one == getitem_const(value, Head(args), Merge(acc))
             n == Len(acc.heap)
         IN  IF one.exc # "" THEN Raise(SubSeq(one.heap, 1, n), one.exc)
             ELSE getitem_const_each(value, Tail(args),
                                     Split(n, Merge(one), acc.ret \o one.ret))

\* FunctionConstantWrapper.call_const, kwargs being empty
call_const(self, args, H) ==
    IF Len(args) = 1 THEN getitem_const(H[self].value, args[1], H)
    ELSE IF args # <<>> THEN getitem_const_each(H[self].value, args, Outcome(H, <<>>, <<>>, ""))
    ELSE Outcome(H, <<>>, <<H[self].value>>, "")

\* next_variables taking the item after it moved the cursor
next_variables_emit_after(self, H) ==
    IF H[self].index >= Len(H[self].items) THEN Raise(H, "StopIteration")
    ELSE IF H[self].index + 1 >= Len(H[self].items) THEN Raise(H, "IndexError")
    ELSE Outcome([H EXCEPT ![self].index = @ + 1, ![self].initial_name = None],
                 <<>>, <<H[self].items[H[self].index + 2], self>>, "")

\* next_variables returning a new iterator and leaving self as it was
next_variables_new_state(self, H) ==
    IF H[self].index >= Len(H[self].items) THEN Raise(H, "StopIteration")
    ELSE Outcome(H, <<[H[self] EXCEPT !.index = @ + 1, !.initial_name = None]>>,
                 <<H[self].items[H[self].index + 1], Len(H) + 1>>, "")

\* next_variables testing the cursor with > instead of >=
next_variables_late_stop(self, H) ==
    IF H[self].index > Len(H[self].items) THEN Raise(H, "StopIteration")
    ELSE IF H[self].index = Len(H[self].items) THEN Raise(H, "IndexError")
    ELSE Outcome([H EXCEPT ![self].index = @ + 1, ![self].initial_name = None],
                 <<>>, <<H[self].items[H[self].index + 1], self>>, "")

\* ListIteratorVariable.next_variables
next_variables(self, H) ==
    IF H[self].index >= Len(H[self].items) THEN Raise(H, "StopIteration")
    ELSE Outcome([H EXCEPT ![self].index = @ + 1, ![self].initial_name = None],
                 <<>>, <<H[self].items[H[self].index + 1], self>>, "")

\* A dict is the sequence of its <<key, value>> pairs in insertion order;
\* the keys are ints.
Keys(d) == {d[i][1] : i \in 1..Len(d)}

DictGet(d, k) == d[CHOOSE i \in 1..Len(d) : d[i][1] = k][2]

RECURSIVE SortedSeq(_)
SortedSeq(S) ==
    IF S = {} THEN <<>>
    ELSE LET m == CHOOSE m \in S : \A x \in S : m <= x IN <<m>> \o SortedSeq(S \ {m})

\* sorted(d.keys())
sorted(d) == SortedSeq(Keys(d))

\* An identity key: the class, a literal and the keys it holds.  An object
\* that is part of a key, being compared by identity, is the literal of its
\* id; so is id(n) of a small int n, which is one object per value.
Key(cls, lit, parts) == [cls |-> cls, lit |-> lit, parts |-> parts]
ObjectLit(id) == Lit("object", id, "", <<>>)
IdOfLit(lit) == Lit("id", lit.n, lit.s, <<>>)
StrLit(str) == Lit("str", 0, str, <<>>)

\* x.get_key() of the value at id in heap H
RECURSIVE get_key(_, _)
get_key(id, H) ==
    LET self == H[id]
        item_keys == [i \in 1..Len(self.items) |-> get_key(self.items[i], H)]
    IN  CASE self.cls = "ConstantVariable" -> Key(self.cls, self.value, <<>>)
          [] self.cls = "FunctionConstantWrapper" ->
                Key(self.cls, ObjectLit(self.value), <<>>)
          [] self.cls = "AllowedFunctionOrModuleVariable" ->
                Key(self.cls, IdOfLit(self.value), <<>>)
          [] self.cls = "ListIteratorVariable" ->
                Key(self.cls, IdOfLit(IntLit(self.index)), item_keys)
          [] self.cls = "GetAttrVariable" ->
                Key(self.cls, StrLit(self.name), <<get_key(self.obj, H)>>)
          [] self.cls \in BaseListClasses -> Key(self.cls, NoneLit, item_keys)
          [] self.cls = "ConstDictVariable" ->
                Key(self.cls, NoneLit,
                    [i \in 1..Len(self.items) |->
                        LET k == sorted(self.items)[i] IN
                        Key("", IntLit(k), <<get_key(DictGet(self.items, k), H)>>)])
          [] OTHER -> Key(self.cls, NoneLit, <<>>)

\* The functions handed to apply: identity, and one that adds a guard
ApplyFns == {"identity", "add_guard"}

\* fn(v)
call_fn(fn, v, H) ==
    IF fn = "identity" THEN Outcome(H, <<>>, <<v>>, "") ELSE add_guard(v, "g9", H)

\* Where a traversal is: the values there are, the values the calls so far
\* returned, and the calls of fn so far, <<the value traversed, the value
\* fn was called on>>.
Walk(H, ret, calls) == [heap |-> H, ret |-> ret, calls |-> calls]

\* VariableTracker.apply on the value at id; and on a list of values, left
\* to right
RECURSIVE apply(_, _, _), apply_list(_, _, _)
apply(fn, id, w) ==
    LET self == w.heap[id]
        kind == CASE self.cls \in BaseListClasses \cup {"ListIteratorVariable"} -> "list"
                  [] self.cls = "ConstDictVariable" -> "dict"
                  [] self.cls = "FunctionConstantWrapper" -> "value"
                  [] self.cls = "GetAttrVariable" -> "obj"
                  [] OTHER -> "leaf"
        \* cls.apply(fn, value.__dict__): the fields that hold values
        below ==
            CASE kind = "list" -> apply_list(fn, self.items, Walk(w.heap, <<>>, w.calls))
              [] kind = "dict" ->
                    apply_list(fn, [i \in 1..Len(self.items) |->
                                       DictGet(self.items, sorted(self.items)[i])],
                               Walk(w.heap, <<>>, w.calls))
              [] kind = "value" -> apply(fn, self.value, Walk(w.heap, <<>>, w.calls))
              [] kind = "obj" -> apply(fn, self.obj, Walk(w.heap, <<>>, w.calls))
              [] OTHER -> Walk(w.heap, <<>>, w.calls)
        kwargs ==
            CASE kind = "list" -> [items |-> below.ret]
              [] kind = "dict" ->
                    [items |-> [i \in 1..Len(self.items) |->
                                   <<sorted(self.items)[i], below.ret[i]>>]]
              [] kind = "value" -> [value |-> below.ret[1]]
              [] kind = "obj" -> [obj |-> below.ret[1]]
              [] OTHER -> NoKwargs
        copied == clone(id, kwargs, below.heap)
        called == call_fn(fn, copied.ret[1], Merge(copied))
    IN  Walk(Merge(called), Append(w.ret, called.ret[1]),
             Append(below.calls, <<id, copied.ret[1]>>))

apply_list(fn, ids, w) ==
    IF ids = <<>> THEN w ELSE apply_list(fn, Tail(ids), apply(fn, Head(ids), w))

\* VariableTracker.copy
copy(id, H) == apply("identity", id, Walk(H, <<>>, <<>>))

\* the example tensor: 4 x 7, contiguous, on the cpu
ExampleTensor ==
    [dtype |-> Lit("dtype", 0, "float32", <<>>),
     device |-> Lit("device", 0, "cpu", <<>>),
     ndim |-> IntLit(2),
     size |-> TupleLit(<<IntLit(4), IntLit(7)>>),
     stride |-> TupleLit(<<IntLit(7), IntLit(1)>>)]

----------------------------------------------------------------------------
(* Guards *)

\* torchdynamo.guards.Guard(name, source, fn); fn, the validation predicate,
\* is the value the binding must still have
Guard(name, source, fn) == [name |-> name, source |-> source, fn |-> fn]
NoGuardPossible(fn) == Guard("", "NotImplementedError", fn)

\* create_guard naming the wrong source for a local
create_guard_wrong_source(self, fn) ==
    IF Truthy(self.initial_name) THEN Guard(self.initial_name, "GLOBAL", fn)
    ELSE IF Truthy(self.global_name) THEN Guard(self.global_name, "GLOBAL", fn)
    ELSE NoGuardPossible(fn)

\* VariableTracker.create_guard
create_guard(self, fn) ==
    IF Truthy(self.initial_name) THEN Guard(self.initial_name, "LOCAL", fn)
    ELSE IF Truthy(self.global_name) THEN Guard(self.global_name, "GLOBAL", fn)
    ELSE NoGuardPossible(fn)

\* GetAttrVariable.create_guard
GetAttrVariable_create_guard(self, fn, H) ==
    IF Truthy(H[self.obj].initial_name)
    THEN Guard(H[self.obj].initial_name \o "." \o self.name, "LOCAL", fn)
    ELSE NoGuardPossible(fn)

\* x.create_guard(fn) of the value at id, by the class of x
create_guard_of(id, fn, H) ==
    IF H[id].cls = "GetAttrVariable" THEN GetAttrVariable_create_guard(H[id], fn, H)
    ELSE create_guard(H[id], fn)

\* VariableTracker.can_create_guard: create_guard(None) does not raise
can_create_guard(id, H) ==
    create_guard_of(id, None, H).source # "NotImplementedError"

----------------------------------------------------------------------------
(* The frame gate and the compilation cache.  A code unit is called in a    *)
(* live environment: the local x and the global G.                          *)

CacheSizeCeiling == 2

CodeUnits == {"f", "g"}     \* f(x) = x.size(0) + 1,  g(x) = x.shape[0] + G
Shapes == {4, 7, 9}
GlobalValues == {0, 1}

RuntimeValue(kind, n) == [kind |-> kind, n |-> n]
Envs ==
    [x : {RuntimeValue("tensor", n) : n \in Shapes} \cup {RuntimeValue("object", 0)},
     G : {RuntimeValue("int", v) : v \in GlobalValues}]

\* the original, uninstrumented code
Original(unit, e) == IF unit = "f" THEN e.x.n + 1 ELSE e.x.n + e.G.n

\* the live environment accessor; a binding that does not resolve fails the guard
GuardHolds(g, e) ==
    \/ g.source = "LOCAL" /\ g.name = "x" /\ e.x = g.fn
    \/ g.source = "GLOBAL" /\ g.name = "G" /\ e.G = g.fn

\* an artifact taken as reusable as soon as one of its guards holds
AnyGuardHolds(guards, e) == guards = {} \/ \E g \in guards : GuardHolds(g, e)

AllGuardsHold(guards, e) == \A g \in guards : GuardHolds(g, e)

\* the first artifact, in insertion order, whose guards all hold; 0 when none
Lookup(artifacts, e) ==
    LET hits == {i \in 1..Len(artifacts) : AllGuardsHold(artifacts[i].guards, e)} IN
    IF hits = {} THEN 0 ELSE CHOOSE i \in hits : \A j \in hits : i <= j

\* a ceiling test that lets one artifact too many in
AtCeiling_off_by_one(artifacts) == Len(artifacts) > CacheSizeCeiling

\* the ceiling test of the frame gate, made before a trace is attempted
AtCeiling(artifacts) == Len(artifacts) >= CacheSizeCeiling

\* a new artifact put first, so that it is the first one looked up
Insert_front(artifacts, a) == <<a>> \o artifacts

\* a new artifact enters the cache of its code unit
Insert(artifacts, a) == Append(artifacts, a)

\* the symbolic values of the bindings a trace loads
LoadX(e) ==
    LET t == [ExampleTensor EXCEPT !.ndim = IntLit(1),
                                   !.size = TupleLit(<<IntLit(e.x.n)>>),
                                   !.stride = TupleLit(<<IntLit(1)>>)]
        v == Construct("TensorVariable",
                       [proxy |-> 1, state |-> YES, initial_name |-> "x"]
                       @@ specialize(t, FALSE))
        out == add_guard(1, create_guard(v, e.x), <<v>>)
    IN  Merge(out)[out.ret[1]]

LoadG(e) ==
    LET v == Construct("ConstantVariable",
                       [value |-> IntLit(e.G.n), state |-> YES, global_name |-> "G"])
        out == add_guard(1, create_guard(v, e.G), <<v>>)
    IN  Merge(out)[out.ret[1]]

Graph(value) ==
    [result |-> value, nodes |-> <<"placeholder", "call_function", "output">>]

\* One trace attempt, instruction by instruction; H is the sequence of the
\* symbolic values made so far, the newest last.
\* LOAD_FAST x; LOAD_CONST 0; LOAD_ATTR size (f) or shape (g)
TraceAttr(unit, e) ==
    LET H0 == <<LoadX(e), Construct("ConstantVariable", [value |-> IntLit(0)])>>
    IN  Merge(const_attr(1, IF unit = "f" THEN "size" ELSE "shape", H0))

\* CALL_FUNCTION 1 on the wrapper x.size (f) or BINARY_SUBSCR on x.shape (g)
TraceItem(unit, H) ==
    Merge(IF unit = "f" THEN call_const(Len(H), <<2>>, H) ELSE getitem_const(Len(H), 2, H))

\* LOAD_CONST 1 (f) or LOAD_GLOBAL G (g); BINARY_ADD; RETURN_VALUE:
\* ABORTED, or COMPLETED with the graph and its guards
TraceEnd(unit, e, H) ==
    LET dim == H[Len(H)]
        rhs == IF unit = "f" THEN Construct("ConstantVariable", [value |-> IntLit(1)])
               ELSE LoadG(e)
        opts == propagate(<<dim, rhs>>)
    IN  IF opts.state = NO THEN [status |-> "ABORTED"]
        ELSE [status |-> "COMPLETED",
              guards |-> opts.guards,
              graph |-> Graph(dim.value.n + rhs.value.n)]

\* a local that is no tensor is an Unsupported Value: asking it for a
\* dataflow node is a graph break
Trace(unit, e) ==
    IF e.x.kind # "tensor" THEN [status |-> "ABORTED"]
    ELSE CHOOSE t \in {TraceEnd(unit, e, H2) :
                          H2 \in {TraceItem(unit, H1) : H1 \in {TraceAttr(unit, e)}}} : TRUE

\* CompileCounter.__call__
CompileCounter_call(self, gm) ==
    [frame_count |-> self.frame_count + 1,
     op_count |-> self.op_count +
                  Cardinality({i \in 1..Len(gm.nodes) :
                                  gm.nodes[i] \in {"call_function", "call_method",
                                                   "call_module"}})]

----------------------------------------------------------------------------
(* The values the operations are tried on *)

\* ids 1 and 2: the constants used as indices and as elements
IndexLits == {IntLit(1), SliceLit(IntLit(0), IntLit(1))}

\* ids 3 and 4: a container or a tensor, and a wrapper around it or an
\* iterator over ids 2 and 1
Scenarios ==
    {[cls |-> "ConstantVariable", args |-> [value |-> TupleLit(<<IntLit(4), IntLit(7)>>)],
      outer |-> "FunctionConstantWrapper"],
     [cls |-> "ListVariable", args |-> [items |-> <<2, 1>>],
      outer |-> "FunctionConstantWrapper"],
     [cls |-> "TupleVariable", args |-> [items |-> <<2, 1>>],
      outer |-> "ListIteratorVariable"],
     [cls |-> "SliceVariable", args |-> [items |-> <<1, 2>>],
      outer |-> "ListIteratorVariable"],
     [cls |-> "ListIteratorVariable", args |-> [items |-> <<2, 1>>],
      outer |-> "ListIteratorVariable"],
     [cls |-> "TensorVariable", args |-> [proxy |-> 1],
      outer |-> "FunctionConstantWrapper"],
     [cls |-> "TensorVariable", args |-> [proxy |-> 1] @@ specialize(ExampleTensor, TRUE),
      outer |-> "ListIteratorVariable"],
     [cls |-> "TensorVariable", args |-> [proxy |-> 1] @@ specialize(ExampleTensor, FALSE),
      outer |-> "ListIteratorVariable"]}

OuterArgs(cls) ==
    IF cls = "FunctionConstantWrapper" THEN [value |-> 3] ELSE [items |-> <<2, 1>>]

\* the guards and the source-name bindings of id 3
Bindings ==
    {[guards |-> {}, initial_name |-> None, global_name |-> None],
     [guards |-> {"g3"}, initial_name |-> "x", global_name |-> None],
     [guards |-> {"g3"}, initial_name |-> None, global_name |-> "G"],
     [guards |-> {"g1", "g3"}, initial_name |-> "x", global_name |-> "G"]}

\* a second iterator is bound to a local, as the first one is
BindingsOf(cls) ==
    IF cls = "ListIteratorVariable"
    THEN {b \in Bindings : b.initial_name = "x" /\ b.global_name = None}
    ELSE Bindings

Ids == 1..4

\* the sequences over S of length at most n
RECURSIVE SeqsUpTo(_, _)
SeqsUpTo(S, n) ==
    IF n = 0 THEN {<<>>}
    ELSE LET shorter == SeqsUpTo(S, n - 1) IN
         shorter \cup {Append(s, x) : s \in {t \in shorter : Len(t) = n - 1}, x \in S}

NoResult == [op |-> "", self |-> 0, args |-> <<>>, ret |-> <<>>, exc |-> ""]

AttrNames ==
    {"ndim", "ndimension", "dim", "dtype", "device", "is_cuda", "size", "shape",
     "stride", "T"}

\* no call is in progress: the caller has taken the last return value
Idle == result = NoResult

\* the value with this id after the last operation
Obj(id) == (heap \o fresh)[id]

ValueInit ==
    /\ \E s1, s2, s3 \in TracingSupported, lit \in IndexLits,
          c \in Scenarios :
        \E b \in BindingsOf(c.cls) :
         heap = << Construct("ConstantVariable",
                             [value |-> IntLit(0), state |-> s1, guards |-> {"g1"}]),
                   Construct("ConstantVariable",
                             [value |-> lit, state |-> s2, guards |-> {"g2"}]),
                   Construct(c.cls, c.args @@ b @@ [state |-> s3]),
                   Construct(c.outer, OuterArgs(c.outer) @@
                                      [state |-> YES, guards |-> {"g4"},
                                       initial_name |-> "it"]) >>
    /\ fresh = <<>>
    /\ result = NoResult
    /\ options = NoKwargs
    /\ emitted = [id \in Ids |-> <<>>]

----------------------------------------------------------------------------
(* One action per operation of the value model *)

Propagate ==
    \E V \in SeqsUpTo(Ids, MaxLen) :
        /\ Idle
        /\ options' = propagate([i \in 1..Len(V) |-> heap[V[i]]])
        /\ result' = [NoResult EXCEPT !.op = "propagate", !.args = V]
        /\ fresh' = <<>>
        /\ UNCHANGED <<heap, emitted, cacheVars>>

\* the call returns: the heap, the new values and the result are as it left them
Return(op, self, args, out) ==
    /\ heap' = out.heap
    /\ fresh' = out.new
    /\ result' = [op |-> op, self |-> self, args |-> args, ret |-> out.ret, exc |-> out.exc]
    /\ options' = NoKwargs
    /\ emitted' = IF op = "next_variables" /\ out.exc = ""
                  THEN [emitted EXCEPT ![self] = Append(@, out.ret[1])] ELSE emitted
    /\ UNCHANGED cacheVars

Clone ==
    \E id \in Ids :
        /\ Idle
        /\ Return("clone", id, <<>>, clone(id, NoKwargs, heap))

AddGuard ==
    \E id \in Ids, g \in {"g1", "g9"} :
        /\ Idle
        /\ Return("add_guard", id, <<>>, add_guard(id, g, heap))

AddGuards ==
    \E id \in Ids, arg \in {1, 3} :
        /\ Idle
        /\ Return("add_guards", id, <<arg>>, add_guards(id, heap[arg].guards, heap))

WithInitialName ==
    \E id \in Ids, name \in {"y"} :
        /\ Idle
        /\ Return("with_initial_name", id, <<>>, with_initial_name(id, name, heap))

GetItemConst ==
    \E id \in Ids, arg \in Ids :
        /\ Idle
        /\ heap[id].cls \in {"ConstantVariable"} \cup BaseListClasses
        /\ Return("getitem_const", id, <<arg>>, getitem_const(id, arg, heap))

ConstAttr ==
    \E id \in Ids, name \in AttrNames :
        /\ Idle
        /\ heap[id].cls = "TensorVariable"
        /\ Return("const_attr", id, <<>>, const_attr(id, name, heap))

CallConst ==
    \E id \in Ids, args \in SeqsUpTo({1, 2}, MaxLen) :
        /\ Idle
        /\ heap[id].cls = "FunctionConstantWrapper"
        /\ Return("call_const", id, args, call_const(id, args, heap))

NextVariables ==
    \E id \in Ids :
        /\ Idle
        /\ heap[id].cls = "ListIteratorVariable"
        /\ Return("next_variables", id, <<>>, next_variables(id, heap))

\* the caller drops what the last operation returned
Discard ==
    /\ ~Idle
    /\ result' = NoResult
    /\ fresh' = <<>>
    /\ options' = NoKwargs
    /\ UNCHANGED <<heap, emitted, cacheVars>>

Next ==
    \/ Discard
    \/ Propagate
    \/ Clone
    \/ AddGuard
    \/ AddGuards
    \/ WithInitialName
    \/ GetItemConst
    \/ ConstAttr
    \/ CallConst
    \/ NextVariables

----------------------------------------------------------------------------
(* One action per way a call goes through the frame gate *)

NoCall ==
    [unit |-> "", env |-> [x |-> RuntimeValue("", 0), G |-> RuntimeValue("", 0)],
     path |-> "", hit |-> 0, result |-> 0, traced |-> ""]

Gate(unit, e, path, hit, res, traced) ==
    [unit |-> unit, env |-> e, path |-> path, hit |-> hit, result |-> res,
     traced |-> traced]

CacheInit ==
    /\ cache = [u \in CodeUnits |-> <<>>]
    /\ fallback = {}
    /\ last = NoCall
    /\ counter = [frame_count |-> 0, op_count |-> 0]

ValueIdle ==
    /\ heap = <<>>
    /\ fresh = <<>>
    /\ result = NoResult
    /\ options = NoKwargs
    /\ emitted = [id \in Ids |-> <<>>]

\* the code unit is fallback-only: the original code runs, nothing is traced
CallFallbackOnly ==
    \E u \in CodeUnits, e \in Envs :
        /\ u \in fallback
        /\ last' = Gate(u, e, "fallback", 0, Original(u, e), "none")
        /\ UNCHANGED <<cache, fallback, counter, valueVars>>

\* a cached artifact's guards all hold: it runs
CallCached ==
    \E u \in CodeUnits, e \in Envs :
        /\ u \notin fallback
        /\ Lookup(cache[u], e) # 0
        /\ LET i == Lookup(cache[u], e) IN
            last' = Gate(u, e, "cached", i, cache[u][i].graph.result, "none")
        /\ UNCHANGED <<cache, fallback, counter, valueVars>>

\* no artifact matches and the cache of the code unit is at its ceiling
CallCeiling ==
    \E u \in CodeUnits, e \in Envs :
        /\ u \notin fallback
        /\ Lookup(cache[u], e) = 0
        /\ AtCeiling(cache[u])
        /\ fallback' = fallback \cup {u}
        /\ cache' = [cache EXCEPT ![u] = <<>>]
        /\ last' = Gate(u, e, "fallback", 0, Original(u, e), "none")
        /\ UNCHANGED <<counter, valueVars>>

\* no artifact matches and the trace attempt ends ABORTED
CallAborted ==
    \E u \in CodeUnits, e \in Envs :
        /\ u \notin fallback
        /\ Lookup(cache[u], e) = 0
        /\ ~AtCeiling(cache[u])
        /\ Trace(u, e).status = "ABORTED"
        /\ fallback' = fallback \cup {u}
        /\ last' = Gate(u, e, "fallback", 0, Original(u, e), "aborted")
        /\ UNCHANGED <<cache, counter, valueVars>>

\* no artifact matches and the trace attempt ends COMPLETED: the graph is
\* compiled by the backend, appended to the cache and run
CallCompiled ==
    \E u \in CodeUnits, e \in Envs :
        /\ u \notin fallback
        /\ Lookup(cache[u], e) = 0
        /\ ~AtCeiling(cache[u])
        /\ Trace(u, e).status = "COMPLETED"
        /\ LET t == Trace(u, e) IN
            /\ counter' = CompileCounter_call(counter, t.graph)
            /\ cache' = [cache EXCEPT
                           ![u] = Insert(@, [guards |-> t.guards, graph |-> t.graph])]
            /\ last' = Gate(u, e, "compiled", 0, t.graph.result, "completed")
        /\ UNCHANGED <<fallback, valueVars>>

CacheNext ==
    \/ CallFallbackOnly
    \/ CallCached
    \/ CallCeiling
    \/ CallAborted
    \/ CallCompiled

----------------------------------------------------------------------------
(* Specifications *)

Init == ValueInit /\ CacheInit

Spec == Init /\ [][Next]_vars

CacheSpecInit == CacheInit /\ ValueIdle

CacheSpec == CacheSpecInit /\ [][CacheNext]_vars

----------------------------------------------------------------------------
(* Values that hold values: get_key, create_guard, can_create_guard, apply  *)
(* and copy are applied to the values of a small forest.                    *)

TreeIds == 1..9

\* the two insertion orders of a dict with the keys 1 and 2
DictOrders == {<< <<1, 6>>, <<2, 5>> >>, << <<2, 5>>, <<1, 6>> >>}

GuardFns == {RuntimeValue("int", 0), RuntimeValue("tensor", 4)}

TreeInit ==
    /\ \E n \in 0..1, proxy \in 1..2, b \in Bindings, d \in DictOrders,
          s \in TracingSupported :
         heap = << Construct("ConstantVariable",
                             [value |-> IntLit(n), state |-> s, guards |-> {"g1"}]),
                   Construct("ConstantVariable",
                             [value |-> IntLit(1), state |-> YES, guards |-> {"g2"},
                              global_name |-> "G"]),
                   Construct("TensorVariable",
                             [proxy |-> proxy, state |-> YES] @@ b @@ ExampleTensor),
                   Construct("TensorVariable",
                             [proxy |-> 1, state |-> YES, guards |-> {"g3"},
                              initial_name |-> "x"] @@ ExampleTensor),
                   Construct("TupleVariable",
                             [items |-> <<1, 3>>, state |-> YES, guards |-> {"g1"}]),
                   Construct("FunctionConstantWrapper",
                             [value |-> 2, state |-> YES, guards |-> {"g2"}]),
                   Construct("GetAttrVariable",
                             [obj |-> 3, name |-> "shape", state |-> YES]),
                   Construct("ConstDictVariable",
                             [items |-> d, state |-> s, guards |-> {"g4"}]),
                   Construct("ListIteratorVariable",
                             [items |-> <<1, 2>>, state |-> YES,
                              initial_name |-> "it"]) >>
    /\ fresh = <<>>
    /\ result = NoResult
    /\ options = NoKwargs
    /\ emitted = [id \in Ids |-> <<>>]
    /\ CacheInit

\* a.get_key() and b.get_key(), to be compared
GetKey ==
    /\ Idle
    /\ \E a, b \in TreeIds :
         Return("get_key", a, <<b>>,
                Outcome(heap, <<>>, <<get_key(a, heap), get_key(b, heap)>>, ""))

CreateGuard ==
    /\ Idle
    /\ \E self \in TreeIds, fn \in GuardFns :
         LET guard == create_guard_of(self, fn, heap) IN
         Return("create_guard", self, <<fn>>,
                IF guard.source = "NotImplementedError"
                THEN Raise(heap, "NotImplementedError")
                ELSE Outcome(heap, <<>>, <<guard>>, ""))

CanCreateGuard ==
    /\ Idle
    /\ \E self \in TreeIds :
         Return("can_create_guard", self, <<>>,
                Outcome(heap, <<>>, <<can_create_guard(self, heap)>>, ""))

\* the values there were, the new ones, and <<the result, the calls of fn>>
Walked(w) ==
    Outcome(SubSeq(w.heap, 1, Len(heap)), SubSeq(w.heap, Len(heap) + 1, Len(w.heap)),
            <<w.ret[1], w.calls>>, "")

Apply ==
    /\ Idle
    /\ \E fn \in ApplyFns, value \in TreeIds :
         \E w \in {apply(fn, value, Walk(heap, <<>>, <<>>))} :
            Return("apply", value, <<fn>>, Walked(w))

Copy ==
    /\ Idle
    /\ \E value \in TreeIds :
         \E w \in {copy(value, heap)} :
            Return("copy", value, <<>>, Walked(w))

TreeNext ==
    \/ Discard
    \/ GetKey
    \/ CreateGuard
    \/ CanCreateGuard
    \/ Apply
    \/ Copy

TreeSpec == TreeInit /\ [][TreeNext]_vars

----------------------------------------------------------------------------
(* Properties of the value model, under Spec *)

\* the largest state of a non-empty set of states
MaxState(S) == CHOOSE m \in S : \A x \in S : x <= m

\* W holds the values of V in some other order
IsPermutation(W, V) ==
    /\ Len(W) = Len(V)
    /\ \A id \in Ids : Cardinality({i \in 1..Len(W) : W[i] = id})
                        = Cardinality({i \in 1..Len(V) : V[i] = id})

States(V) == {heap[V[i]].state : i \in 1..Len(V)}

PropagateCalled == result.op = "propagate"

\* C1: for a non-empty list V, propagate(V) has state NO iff some value of V
\* has state NO; otherwise YES iff some value has state YES; otherwise
\* UNKNOWN; and propagate gives the same record for V in any order.
C1_PropagateMaxDominance ==
    (PropagateCalled /\ result.args # <<>>) =>
        LET V == result.args IN
        /\ options.state = NO <=> NO \in States(V)
        /\ NO \notin States(V) => (options.state = YES <=> YES \in States(V))
        /\ (NO \notin States(V) /\ YES \notin States(V)) => options.state = UNKNOWN
        /\ \A W \in SeqsUpTo(Ids, MaxLen) :
              IsPermutation(W, V) =>
                  propagate([i \in 1..Len(W) |-> heap[W[i]]]) = options

\* propagate was called on an UNKNOWN value followed by a NO value
C1_Witness ==
    /\ PropagateCalled
    /\ Len(result.args) = 2
    /\ heap[result.args[1]].state = UNKNOWN
    /\ heap[result.args[2]].state = NO
    /\ options.state = NO

\* the guards of the values an operation was called on and with
OperandGuards ==
    (IF result.self = 0 THEN {} ELSE heap[result.self].guards)
    \cup UNION {heap[result.args[i]].guards : i \in 1..Len(result.args)}

\* the guards of what an operation returned: of the record of propagate, of
\* the item of next_variables, of the value or values of the others
ResultGuards ==
    IF PropagateCalled THEN options.guards
    ELSE IF result.op = "next_variables" THEN Obj(result.ret[1]).guards
    ELSE UNION {Obj(result.ret[i]).guards : i \in 1..Len(result.ret)}

\* C2: no composition drops a guard: what propagate, add_guard, add_guards,
\* getitem_const, call_const and next_variables return holds every guard of
\* every operand, the container, wrapper or iterator included.
C2_NoGuardDropped ==
    (/\ result.op \in {"propagate", "add_guard", "add_guards", "getitem_const",
                       "call_const", "next_variables"}
     /\ result.exc = ""
     /\ ~(PropagateCalled /\ result.args = <<>>))
        => OperandGuards \subseteq ResultGuards

\* the states of the elements a constant index selects from a container
SelectedStates(self, arg) ==
    LET index == as_python_constant(arg, heap) IN
    IF heap[self].cls \notin BaseListClasses THEN {}
    ELSE IF index.kind = "slice"
    THEN LET chosen == PySlice(heap[self].items, index) IN
         {heap[chosen[i]].state : i \in 1..Len(chosen)}
    ELSE {heap[heap[self].items[index.n + 1]].state}

\* C3: the state of what getitem_const returns, on a constant and on a list,
\* tuple or slice value, is the maximum of the states of the container, of
\* the selected element or elements and of the index.
C3_GetItemMaxDominance ==
    (result.op = "getitem_const" /\ result.exc = "") =>
        Obj(result.ret[1]).state
            = MaxState({heap[result.self].state, heap[result.args[1]].state}
                       \cup SelectedStates(result.self, result.args[1]))

\* C4: propagate([]) is the neutral record: a value built from it has state
\* UNKNOWN and no guards, and combining it with a value v, on either side or
\* as the overrides of a clone of v, gives the state and the guards of v.
C4_PropagateEmptyNeutral ==
    (PropagateCalled /\ result.args = <<>>) =>
        LET built == Construct("ConstantVariable", [value |-> NoneLit] @@ options) IN
        /\ built.state = UNKNOWN
        /\ built.guards = {}
        /\ \A id \in Ids :
              LET v == heap[id]
                  same == [state |-> v.state, guards |-> v.guards]
                  cloned == clone(id, options, heap)
              IN  /\ propagate(<<built, v>>) = same
                  /\ propagate(<<v, built>>) = same
                  /\ Merge(cloned)[cloned.ret[1]].state = v.state
                  /\ Merge(cloned)[cloned.ret[1]].guards = v.guards

\* propagate was called on the empty list while a value that is neither
\* UNKNOWN nor without guards exists
C4_Witness ==
    /\ PropagateCalled
    /\ result.args = <<>>
    /\ DOMAIN options = {}
    /\ \E id \in Ids : heap[id].state = NO /\ heap[id].guards # {}

PureOperations ==
    {"clone", "add_guard", "add_guards", "with_initial_name", "getitem_const",
     "const_attr", "call_const", "propagate"}

----------------------------------------------------------------------------
(* Properties of the sequence iterator, under Spec *)

Iterators == {id \in DOMAIN heap : heap[id].cls = "ListIteratorVariable"}

\* an iterator was advanced and emitted an item
Advanced == result.op = "next_variables" /\ result.exc = ""

\* C11: an iterator advanced N times has emitted items[0], ..., items[N-1]
\* in that order and its cursor is N, each advance moving it by one and
\* emitting the item it was at; once advanced the iterator has no local
\* binding; and iterators over the same items that were advanced as often
\* have emitted the same sequence.
C11_EmitsInOrder ==
    [][/\ Advanced' =>
            LET it == heap[result'.self] IN
            /\ result'.ret[1] = it.items[it.index + 1]
            /\ heap'[result'.self].index = it.index + 1
       /\ \A id \in Iterators' :
            /\ emitted'[id] = SubSeq(heap'[id].items, 1, heap'[id].index)
            /\ heap'[id].index > 0 => heap'[id].initial_name = None
       /\ \A a, b \in Iterators' :
            (heap'[a].items = heap'[b].items /\ heap'[a].index = heap'[b].index)
                => emitted'[a] = emitted'[b]]_vars

\* an iterator over two items, bound to a local at first, was advanced twice
C11_Witness ==
    /\ Advanced
    /\ heap[result.self].index = 2
    /\ emitted[result.self] = heap[result.self].items
    /\ heap[result.self].items[1] # heap[result.self].items[2]
    /\ heap[result.self].initial_name = None

Exhausted == result.op = "next_variables" /\ result.exc = "StopIteration"

\* C16: the cursor of an iterator is between 0 and the number of its items;
\* advancing fails only when the cursor is at the end, and then it raises
\* StopIteration, emits nothing and leaves every value, the iterator's
\* cursor, items and local binding included, as it was, so that advancing
\* again does the same.
C16_CleanExhaustion ==
    [][/\ \A id \in Iterators' : heap'[id].index \in 0..Len(heap'[id].items)
       /\ result'.op = "next_variables" =>
            LET it == heap[result'.self] IN
            /\ it.index = Len(it.items) <=> Exhausted'
            /\ result'.exc \in {"", "StopIteration"}
            /\ Exhausted' =>
                  /\ result'.ret = <<>>
                  /\ fresh' = <<>>
                  /\ heap' = heap
                  /\ emitted' = emitted]_vars

\* an iterator that has emitted its two items was advanced once more
C16_Witness ==
    /\ Exhausted
    /\ heap[result.self].index = 2
    /\ emitted[result.self] = heap[result.self].items

----------------------------------------------------------------------------
(* Properties of the frame gate, under CacheSpec.  In a step, last' is the  *)
(* call made and cache, fallback and counter are as the call found them.    *)

\* the artifacts of the called code unit, as the call found them
Found == cache[last'.unit]

\* the artifacts the call found whose guards all hold in its environment
Matching == {i \in 1..Len(Found) : \A g \in Found[i].guards : GuardHolds(g, last'.env)}

\* the call ran an artifact it found, and every guard of that artifact holds
RanMatching ==
    /\ last'.path = "cached"
    /\ last'.hit \in Matching
    /\ last'.result = Found[last'.hit].graph.result

\* the call made a trace attempt
Traced == last'.traced \in {"completed", "aborted"}

\* the call ran the original code without a trace attempt, the code unit
\* being fallback-only or its cache at the ceiling
RanUninstrumented ==
    /\ last'.path = "fallback"
    /\ last'.traced = "none"
    /\ last'.unit \in fallback \/ Len(Found) >= CacheSizeCeiling

\* C5, as claimed: an artifact is run only if all its guards hold, and a
\* call whose environment violates a guard of a cached artifact either runs
\* another cached artifact whose guards all hold or triggers a new trace.
C5_AsClaimed ==
    [][/\ last'.path = "cached" => RanMatching
       /\ Matching # 1..Len(Found) => (RanMatching \/ Traced)]_vars

\* C5, amended: an artifact is run only if all its guards hold, and a call
\* whose environment violates a guard of a cached artifact either runs
\* another cached artifact whose guards all hold, or triggers a new trace,
\* or, the code unit being fallback-only or at its ceiling, runs the
\* original code without a trace.
C5_GuardedSelection ==
    [][/\ last'.path = "cached" => RanMatching
       /\ Matching # 1..Len(Found) => (RanMatching \/ Traced \/ RanUninstrumented)]_vars

\* a call went past a cached artifact one of whose guards fails and ran the
\* second artifact of its code unit
C5_Witness ==
    /\ last.path = "cached"
    /\ last.hit = 2
    /\ \E g \in cache[last.unit][1].guards : ~GuardHolds(g, last.env)

\* C6: whatever path a call takes, a cached artifact, a freshly compiled
\* one or the original code, it returns what the original code returns on
\* the same arguments.
C6_ResultCorrect ==
    last.unit # "" => last.result = Original(last.unit, last.env)

\* a call of g ran a cached artifact after the global changed and a second
\* artifact was compiled
C6_Witness ==
    /\ last.unit = "g"
    /\ last.path = "cached"
    /\ last.env.G.n = 1
    /\ counter.frame_count >= 2
    /\ last.result = Original(last.unit, last.env)

\* C7: a freshly compiled artifact enters the cache with guards that hold in
\* the environment it was traced in, the backend being called once; and a
\* call of a code unit that is not fallback-only, in an environment in which
\* all guards of a cached artifact hold, runs a cached artifact and leaves
\* the backend's counters, the cache and the fallback marks as they were.
C7_ReusedWhileGuardsHold ==
    [][/\ last'.path = "compiled" =>
            /\ counter'.frame_count = counter.frame_count + 1
            /\ last'.unit \notin fallback'
            /\ \E i \in 1..Len(cache'[last'.unit]) :
                  \A g \in cache'[last'.unit][i].guards : GuardHolds(g, last'.env)
       /\ (last'.unit \notin fallback /\ Matching # {}) =>
            /\ RanMatching
            /\ counter' = counter
            /\ cache' = cache
            /\ fallback' = fallback]_vars

\* after one compilation in all, a call ran the cached artifact
C7_Witness ==
    /\ last.path = "cached"
    /\ counter.frame_count = 1
    /\ Len(cache[last.unit]) = 1

\* C8: a code unit never has more than CacheSizeCeiling artifacts; a call
\* that matches none of CacheSizeCeiling artifacts runs the original code
\* without a trace and marks the code unit fallback-only; the mark is never
\* removed; and a call of a fallback-only code unit runs the original code
\* and is not traced.
C8_FallbackCeiling ==
    [][/\ \A u \in CodeUnits : Len(cache'[u]) <= CacheSizeCeiling
       /\ (/\ last'.unit \notin fallback
           /\ Len(Found) = CacheSizeCeiling
           /\ Matching = {}) =>
              /\ last'.path = "fallback"
              /\ last'.traced = "none"
              /\ last'.unit \in fallback'
       /\ fallback \subseteq fallback'
       /\ last'.unit \in fallback =>
              /\ last'.path = "fallback"
              /\ last'.traced = "none"
              /\ counter' = counter]_vars

\* a call of f ran the original code, untraced, f having become
\* fallback-only after CacheSizeCeiling artifacts had been compiled for it
\* (none was compiled for g)
C8_Witness ==
    /\ last.unit = "f"
    /\ last.path = "fallback"
    /\ last.traced = "none"
    /\ "f" \in fallback
    /\ "g" \notin fallback
    /\ cache["g"] = <<>>
    /\ counter.frame_count = CacheSizeCeiling

\* the ceiling policy applies to the called code unit
CeilingApplies ==
    /\ Len(Found) >= CacheSizeCeiling
    /\ last'.unit \notin fallback
    /\ last'.unit \in fallback'

\* C9: a trace attempt that ends ABORTED leaves the cache as it was; and in
\* any step the artifacts of a code unit stay as they were or get one more
\* at the end, unless the ceiling policy applies to the code unit.
C9_CacheAppendOnly ==
    [][/\ last'.traced = "aborted" => cache' = cache
       /\ \A u \in CodeUnits :
             \/ cache'[u] = cache[u]
             \/ /\ Len(cache'[u]) = Len(cache[u]) + 1
                /\ SubSeq(cache'[u], 1, Len(cache[u])) = cache[u]
             \/ u = last'.unit /\ CeilingApplies]_vars

\* a trace attempt ended ABORTED in a code unit that has an artifact
C9_Witness ==
    /\ last.traced = "aborted"
    /\ Len(cache[last.unit]) >= 1

----------------------------------------------------------------------------
(* Properties of get_key, create_guard and apply, under TreeSpec *)

\* a and b stand for the same constant or the same graph node, and so do the
\* values they hold
RECURSIVE Interchangeable(_, _, _)
Interchangeable(a, b, H) ==
    LET x == H[a]
        y == H[b]
    IN  /\ x.cls = y.cls
        /\ CASE x.cls = "ConstantVariable" -> x.value = y.value
              [] x.cls = "TensorVariable" -> x.proxy = y.proxy
              [] x.cls = "FunctionConstantWrapper" ->
                    Interchangeable(x.value, y.value, H)
              [] x.cls = "GetAttrVariable" ->
                    x.name = y.name /\ Interchangeable(x.obj, y.obj, H)
              [] x.cls \in BaseListClasses \cup {"ListIteratorVariable"} ->
                    /\ Len(x.items) = Len(y.items)
                    /\ x.cls = "ListIteratorVariable" => x.index = y.index
                    /\ \A i \in 1..Len(x.items) :
                          Interchangeable(x.items[i], y.items[i], H)
              [] x.cls = "ConstDictVariable" ->
                    /\ Keys(x.items) = Keys(y.items)
                    /\ \A k \in Keys(x.items) :
                          Interchangeable(DictGet(x.items, k), DictGet(y.items, k), H)
              [] OTHER -> TRUE

\* C12: whenever a.get_key() equals b.get_key(), a and b are interchangeable
\* in a dataflow graph: they stand for the same constant or the same graph
\* node; two tensor values wrapping different graph nodes never have equal
\* keys.
C12_KeySound ==
    result.op = "get_key" /\ result.ret[1] = result.ret[2]
        => Interchangeable(result.self, result.args[1], heap)

\* the value whose bindings the guard of the value at id is derived from:
\* the object an attribute access reads from, the value itself otherwise
BindingsFrom(id) ==
    IF heap[id].cls = "GetAttrVariable" THEN heap[heap[id].obj] ELSE heap[id]

\* the name guarded when the binding is called name
GuardedName(id, name) ==
    IF heap[id].cls = "GetAttrVariable" THEN name \o "." \o heap[id].name ELSE name

\* C13: create_guard raises (NoGuardPossible) when the value has neither a
\* local nor a global binding; with a local binding it returns a LOCAL guard
\* on that name, otherwise with a global binding a GLOBAL guard on that name;
\* for an attribute access the bindings are those of the object it reads
\* from; can_create_guard is true exactly when create_guard would succeed.
C13_GuardFromBindings ==
    /\ result.op = "create_guard" =>
          LET from == BindingsFrom(result.self) IN
          IF Truthy(from.initial_name)
          THEN /\ result.exc = ""
               /\ result.ret[1] = Guard(GuardedName(result.self, from.initial_name),
                                        "LOCAL", result.args[1])
          ELSE IF Truthy(from.global_name)
          THEN /\ result.exc = ""
               /\ result.ret[1] = Guard(GuardedName(result.self, from.global_name),
                                        "GLOBAL", result.args[1])
          ELSE result.exc = "NotImplementedError"
    /\ result.op = "can_create_guard" =>
          \A fn \in GuardFns :
             result.ret[1] =
                (create_guard_of(result.self, fn, heap).source # "NotImplementedError")

\* the fields of a class that hold values
ChildFields(cls) ==
    CASE cls \in BaseListClasses \cup {"ListIteratorVariable", "ConstDictVariable"} ->
            {"items"}
      [] cls = "FunctionConstantWrapper" -> {"value"}
      [] cls = "GetAttrVariable" -> {"obj"}
      [] OTHER -> {}

\* the values the value at id holds: list elements left to right, map values
\* by sorted key
Children(id, H) ==
    LET x == H[id] IN
    CASE x.cls \in BaseListClasses \cup {"ListIteratorVariable"} -> x.items
      [] x.cls = "ConstDictVariable" ->
            [i \in 1..Len(x.items) |-> DictGet(x.items, sorted(x.items)[i])]
      [] x.cls = "FunctionConstantWrapper" -> <<x.value>>
      [] x.cls = "GetAttrVariable" -> <<x.obj>>
      [] OTHER -> <<>>

\* the values reachable from id, children before their parent
RECURSIVE PostOrder(_, _), PostOrderEach(_, _)
PostOrder(id, H) == PostOrderEach(Children(id, H), H) \o <<id>>

PostOrderEach(ids, H) ==
    IF ids = <<>> THEN <<>> ELSE PostOrder(Head(ids), H) \o PostOrderEach(Tail(ids), H)

\* a in heap A and b in heap B have the same variant and the same fields,
\* and so have the values they hold; a map's fields are its keys and what
\* each key maps to
RECURSIVE SameFields(_, _, _, _)
SameFields(a, A, b, B) ==
    LET x == A[a]
        y == B[b]
        plain(v) == [k \in (DOMAIN v) \ ChildFields(v.cls) |-> v[k]]
    IN  /\ x.cls = y.cls
        /\ plain(x) = plain(y)
        /\ x.cls = "ConstDictVariable" => Keys(x.items) = Keys(y.items)
        /\ Len(Children(a, A)) = Len(Children(b, B))
        /\ \A i \in 1..Len(Children(a, A)) :
              SameFields(Children(a, A)[i], A, Children(b, B)[i], B)

Reverse(seq) == [i \in 1..Len(seq) |-> seq[Len(seq) + 1 - i]]

\* the same values, every map filled in the opposite order
OtherInsertionOrder(H) ==
    [i \in 1..Len(H) |->
        IF H[i].cls = "ConstDictVariable" THEN [H[i] EXCEPT !.items = Reverse(@)]
        ELSE H[i]]

\* C15: apply(fn, value) calls fn exactly once on every value reachable from
\* value, children before their parent, list elements left to right and map
\* keys in sorted order; its result and the order of the calls do not depend
\* on map insertion order; it builds a new tree and leaves the input
\* unchanged; copy(value) has the same variant, fields and identity key as
\* value.
C15_DeepTraversal ==
    [][result'.op \in {"apply", "copy"} =>
          LET value == result'.self
              fn == IF result'.op = "copy" THEN "identity" ELSE result'.args[1]
              root == result'.ret[1]
              calls == result'.ret[2]
              after == heap' \o fresh'
              other == apply(fn, value, Walk(OtherInsertionOrder(heap), <<>>, <<>>))
          IN  /\ [i \in 1..Len(calls) |-> calls[i][1]] = PostOrder(value, heap)
              /\ other.calls = calls
              /\ other.ret = <<root>>
              /\ SubSeq(other.heap, Len(heap) + 1, Len(other.heap)) = fresh'
              /\ heap' = heap
              /\ \A i \in 1..Len(PostOrder(root, after)) :
                    PostOrder(root, after)[i] > Len(heap)
              /\ fn = "identity" =>
                    /\ SameFields(value, heap, root, after)
                    /\ get_key(root, after) = get_key(value, heap)]_vars

====
